---------------------------- MODULE Spec2Model ----------------------------
(***************************************************************************)
(* Model of the metrics summarisation and scoring engine of                *)
(* financial-analysis-agent-crew:                                          *)
(*   app/tools/financial_report_compressor_tools.py                        *)
(*       summarize_finnhub_financials, _assess_overall_health              *)
(*   app/utils/financial_report_compressor_util.py                         *)
(*       create_comprehensive_summary, create_structured_compression       *)
(*                                                                         *)
(* Python values.  A dict is a function whose domain is its key set, a     *)
(* list is a sequence, a str held in a dict is Str(s), None is None and a  *)
(* number x is Num(n) with n = x * Scale (fixed point, four decimals).     *)
(* A call either returns a value or raises: Return(v), Raise(e).           *)
(***************************************************************************)
EXTENDS Integers, Sequences, FiniteSets, TLC

VARIABLES
    data,      \* the raw record handed to the entry point
    args,      \* the other arguments of the call
    pc,        \* "start" before the call, "done" after it
    result     \* what the call returned or raised

vars == <<data, args, pc, result>>

---------------------------------------------------------------------------
(* Python values *)

Scale == 10 ^ 4

\* the number m / 1000
Milli(m) == m * (Scale \div 1000)

None == [tag |-> "None"]
Num(n) == [tag |-> "num", v |-> n]
Str(s) == [tag |-> "str", s |-> s]

IsNum(x) == x.tag = "num"

Return(v) == [exc |-> "none", value |-> v]
Raise(e) == [exc |-> e, value |-> None]

EmptyDict == << >>

\* d.get(k, default)
DictGet(d, k, default) == IF k \in DOMAIN d THEN d[k] ELSE default

\* k in d
HasKey(d, k) == k \in DOMAIN d

---------------------------------------------------------------------------
(* Number formatting: f"{x:.{dec}f}" of x = n / Scale *)

Abs(n) == IF n < 0 THEN -n ELSE n

\* num / den rounded to the nearest integer, ties to even (den > 0)
RoundHalfEven(num, den) ==
    LET q == num \div den
        r == num % den
    IN  IF 2 * r < den THEN q
        ELSE IF 2 * r > den THEN q + 1
        ELSE IF q % 2 = 0 THEN q ELSE q + 1

RECURSIVE PadLeft(_, _)
PadLeft(s, width) == IF Len(s) >= width THEN s ELSE PadLeft("0" \o s, width)

\* f"{x:.{dec}f}" of x = num / den (den > 0): the sign is that of the
\* unrounded value, so a small negative renders "-0.00".  Python rounds the
\* binary float, which differs from the decimal value only at an exact
\* decimal tie; no input value used below renders at a tie.
FormatRatio(num, den, dec) ==
    LET p == 10 ^ dec
        a == RoundHalfEven(Abs(num) * p, den)
    IN  (IF num < 0 THEN "-" ELSE "")
        \o ToString(a \div p)
        \o (IF dec > 0 THEN "." \o PadLeft(ToString(a % p), dec) ELSE "")

\* f"{n/Scale:.{dec}f}"
FormatFixed(n, dec) == FormatRatio(n, Scale, dec)

---------------------------------------------------------------------------
(* tools/financial_report_compressor_tools.py: summarize_finnhub_financials *)

\* metric.get(key, default): a key present with the value null yields None,
\* the default is used only for an absent key
get_metric(metric, key, default) == DictGet(metric, key, default)

\* format_pct with an unknown value rendered as zero
format_pct_zero(value, multiplier) ==
    IF value = None THEN "0.00%"
    ELSE FormatFixed(value.v * multiplier, 2) \o "%"

\* format_pct(value, multiplier): f"{value * multiplier:.2f}%"
format_pct(value, multiplier) ==
    IF value = None THEN "N/A"
    ELSE FormatFixed(value.v * multiplier, 2) \o "%"

\* get_trend with the decline tests in the other order
get_trend_swapped(current, growth) ==
    IF growth = None \/ current = None THEN "stable"
    ELSE IF growth.v > Milli(10000) THEN "strong growth"
    ELSE IF growth.v > Milli(5000) THEN "moderate growth"
    ELSE IF growth.v < 0 THEN "slight decline"
    ELSE IF growth.v < Milli(-10000) THEN "declining"
    ELSE "stable"

\* get_trend with the upper boundary inclusive
get_trend_inclusive(current, growth) ==
    IF growth = None \/ current = None THEN "stable"
    ELSE IF growth.v >= Milli(10000) THEN "strong growth"
    ELSE IF growth.v > Milli(5000) THEN "moderate growth"
    ELSE IF growth.v < Milli(-10000) THEN "declining"
    ELSE IF growth.v < 0 THEN "slight decline"
    ELSE "stable"

\* get_trend(current, growth)
get_trend(current, growth) ==
    IF growth = None \/ current = None THEN "stable"
    ELSE IF growth.v > Milli(10000) THEN "strong growth"
    ELSE IF growth.v > Milli(5000) THEN "moderate growth"
    ELSE IF growth.v < Milli(-10000) THEN "declining"
    ELSE IF growth.v < 0 THEN "slight decline"
    ELSE "stable"

valuation(metric) ==
    ("pe_ttm" :> get_metric(metric, "peTTM", None))
    @@ ("forward_pe" :> get_metric(metric, "forwardPE", None))
    @@ ("pb_ratio" :> get_metric(metric, "pb", None))
    @@ ("ps_ratio" :> get_metric(metric, "psTTM", None))
    @@ ("peg_ratio" :> get_metric(metric, "pegTTM", None))
    @@ ("ev_ebitda" :> get_metric(metric, "evEbitdaTTM", None))
    @@ ("market_cap" :> get_metric(metric, "marketCapitalization", None))
    @@ ("enterprise_value" :> get_metric(metric, "enterpriseValue", None))

profitability(metric) ==
    ("eps_ttm" :> get_metric(metric, "epsTTM", None))
    @@ ("eps_growth_ttm_yoy" :> Str(format_pct(get_metric(metric, "epsGrowthTTMYoy", None), 1)))
    @@ ("eps_growth_3y" :> Str(format_pct(get_metric(metric, "epsGrowth3Y", None), 1)))
    @@ ("net_margin_ttm" :> Str(format_pct(get_metric(metric, "netProfitMarginTTM", None), 100)))
    @@ ("operating_margin_ttm" :> Str(format_pct(get_metric(metric, "operatingMarginTTM", None), 100)))
    @@ ("gross_margin_ttm" :> Str(format_pct(get_metric(metric, "grossMarginTTM", None), 100)))
    @@ ("roe_ttm" :> Str(format_pct(get_metric(metric, "roeTTM", None), 100)))
    @@ ("roa_ttm" :> Str(format_pct(get_metric(metric, "roaTTM", None), 100)))
    @@ ("roic_ttm" :> Str(format_pct(get_metric(metric, "roiTTM", None), 100)))
    @@ ("trend" :> Str(get_trend(get_metric(metric, "netProfitMarginTTM", None),
                                 get_metric(metric, "netMarginGrowth5Y", None))))

\* lines 103-109: the ladder over _wc_ratio
working_capital_status(wc_ratio) ==
    IF wc_ratio.v > Milli(1500) THEN "healthy"
    ELSE IF wc_ratio.v > Milli(1000) THEN "adequate"
    ELSE "tight"

liquidity(metric) ==
    ("current_ratio" :> get_metric(metric, "currentRatioQuarterly", None))
    @@ ("quick_ratio" :> get_metric(metric, "quickRatioQuarterly", None))
    @@ ("cash_per_share" :> get_metric(metric, "cashPerSharePerShareQuarterly", None))
    @@ ("working_capital_status" :>
            Str(working_capital_status(get_metric(metric, "currentRatioQuarterly", Num(0)))))

\* lines 119-125: the ladder over _debt_to_equity
leverage_assessment(debt_to_equity) ==
    IF debt_to_equity.v > Milli(2000) THEN "high"
    ELSE IF debt_to_equity.v > Milli(1000) THEN "moderate"
    ELSE "low"

leverage(metric) ==
    ("debt_to_equity" :> get_metric(metric, "totalDebt/totalEquityQuarterly", None))
    @@ ("long_term_debt_to_equity" :> get_metric(metric, "longTermDebt/equityQuarterly", None))
    @@ ("debt_to_assets" :> get_metric(metric, "totalDebtToTotalAsset", None))
    @@ ("interest_coverage" :> get_metric(metric, "netInterestCoverageTTM", None))
    @@ ("leverage_assessment" :>
            Str(leverage_assessment(get_metric(metric, "totalDebt/totalEquityQuarterly", Num(0)))))

efficiency(metric) ==
    ("asset_turnover_ttm" :> get_metric(metric, "assetTurnoverTTM", None))
    @@ ("inventory_turnover_ttm" :> get_metric(metric, "inventoryTurnoverTTM", None))
    @@ ("receivables_turnover_ttm" :> get_metric(metric, "receivablesTurnoverTTM", None))
    @@ ("cash_flow_per_share_ttm" :> get_metric(metric, "cashFlowPerShareTTM", None))

performance(metric) ==
    ("revenue_growth_ttm_yoy" :> Str(format_pct(get_metric(metric, "revenueGrowthTTMYoy", None), 1)))
    @@ ("revenue_growth_3y" :> Str(format_pct(get_metric(metric, "revenueGrowth3Y", None), 1)))
    @@ ("revenue_per_share_ttm" :> get_metric(metric, "revenuePerShareTTM", None))
    @@ ("dividend_yield" :> Str(format_pct(get_metric(metric, "currentDividendYieldTTM", None), 100)))

stock_performance(metric) ==
    ("52_week_high" :> get_metric(metric, "52WeekHigh", None))
    @@ ("52_week_low" :> get_metric(metric, "52WeekLow", None))
    @@ ("52_week_return" :> Str(format_pct(get_metric(metric, "52WeekPriceReturnDaily", None), 1)))
    @@ ("ytd_return" :> Str(format_pct(get_metric(metric, "yearToDatePriceReturnDaily", None), 1)))
    @@ ("beta" :> get_metric(metric, "beta", None))
    @@ ("vs_sp500_52week" :> Str(format_pct(get_metric(metric, "priceRelativeToS&P50052Week", None), 1)))
    @@ ("vs_sp500_ytd" :> Str(format_pct(get_metric(metric, "priceRelativeToS&P500Ytd", None), 1)))

\* a comparison of None with a number raises TypeError: the keys of `keys`
\* are each compared with a number by the caller
NoneCompared(metric, keys) == \E k \in keys : HasKey(metric, k) /\ metric[k] = None

\* the keys summarize_finnhub_financials compares with a threshold
SummarizeComparedKeys ==
    {"currentRatioQuarterly", "totalDebt/totalEquityQuarterly", "netProfitMarginTTM",
     "epsGrowthTTMYoy", "quickRatioQuarterly", "roeTTM", "revenueGrowthTTMYoy"}

\* red_flags with the liquidity rule firing at 1.0 itself and the leverage
\* rule reading an unknown debt/equity as 3
red_flags_loose(metric) ==
    (IF get_metric(metric, "currentRatioQuarterly", Num(Milli(2000))).v <= Milli(1000)
        THEN <<Str("Liquidity concern: Current ratio below 1.0")>> ELSE << >>)
    \o (IF get_metric(metric, "totalDebt/totalEquityQuarterly", Num(Milli(3000))).v > Milli(2000)
        THEN <<Str("High leverage: Debt-to-equity above 2.0")>> ELSE << >>)
    \o (IF get_metric(metric, "netProfitMarginTTM", Num(0)).v < 0
        THEN <<Str("Unprofitable: Negative net margin")>> ELSE << >>)
    \o (IF get_metric(metric, "epsGrowthTTMYoy", Num(0)).v < Milli(-20000)
        THEN <<Str("Significant EPS decline: "
                   \o format_pct(get_metric(metric, "epsGrowthTTMYoy", None), 1))>>
        ELSE << >>)
    \o (IF get_metric(metric, "quickRatioQuarterly", Num(Milli(2000))).v < Milli(500)
        THEN <<Str("Very low quick ratio: May struggle with short-term obligations")>>
        ELSE << >>)

\* lines 166-180: the red flag rules, in order
red_flags(metric) ==
    (IF get_metric(metric, "currentRatioQuarterly", Num(Milli(2000))).v < Milli(1000)
        THEN <<Str("Liquidity concern: Current ratio below 1.0")>> ELSE << >>)
    \o (IF get_metric(metric, "totalDebt/totalEquityQuarterly", Num(0)).v > Milli(2000)
        THEN <<Str("High leverage: Debt-to-equity above 2.0")>> ELSE << >>)
    \o (IF get_metric(metric, "netProfitMarginTTM", Num(0)).v < 0
        THEN <<Str("Unprofitable: Negative net margin")>> ELSE << >>)
    \o (IF get_metric(metric, "epsGrowthTTMYoy", Num(0)).v < Milli(-20000)
        THEN <<Str("Significant EPS decline: "
                   \o format_pct(get_metric(metric, "epsGrowthTTMYoy", None), 1))>>
        ELSE << >>)
    \o (IF get_metric(metric, "quickRatioQuarterly", Num(Milli(2000))).v < Milli(500)
        THEN <<Str("Very low quick ratio: May struggle with short-term obligations")>>
        ELSE << >>)

\* lines 182-193: the highlight rules, in order
highlights(metric) ==
    (IF get_metric(metric, "epsGrowthTTMYoy", Num(0)).v > Milli(20000)
        THEN <<Str("Strong EPS growth: "
                   \o format_pct(get_metric(metric, "epsGrowthTTMYoy", None), 1) \o " YoY")>>
        ELSE << >>)
    \o (IF get_metric(metric, "roeTTM", Num(0)).v > Milli(200)
        THEN <<Str("Excellent ROE: " \o format_pct(get_metric(metric, "roeTTM", None), 100))>>
        ELSE << >>)
    \o (IF get_metric(metric, "currentRatioQuarterly", Num(0)).v > Milli(2000)
        THEN <<Str("Strong liquidity position")>> ELSE << >>)
    \o (IF get_metric(metric, "revenueGrowthTTMYoy", Num(0)).v > Milli(15000)
        THEN <<Str("High revenue growth: "
                   \o format_pct(get_metric(metric, "revenueGrowthTTMYoy", None), 1))>>
        ELSE << >>)

\* xs[:n]
Take(xs, n) == SubSeq(xs, 1, IF Len(xs) < n THEN Len(xs) ELSE n)

\* quarterly_trend dividing by prior instead of abs(prior)
quarterly_trend_signed(series) ==
    IF HasKey(series, "quarterly") /\ HasKey(series["quarterly"], "eps")
    THEN LET recent_eps == Take(series["quarterly"]["eps"], 4)
         IN  IF Len(recent_eps) >= 2
             THEN LET latest == recent_eps[1]["v"]
                      prior == recent_eps[2]["v"]
                      sign == IF prior.v < 0 THEN -1 ELSE 1
                  IN  ("latest_quarter_eps" :> latest)
                      @@ ("prior_quarter_eps" :> prior)
                      @@ ("eps_qoq_change" :>
                            Str(IF prior.v # 0
                                THEN FormatRatio(sign * (latest.v - prior.v) * 100,
                                                 Abs(prior.v), 2) \o "%"
                                ELSE format_pct(Num(0), 1)))
             ELSE EmptyDict
    ELSE EmptyDict

\* lines 195-205
quarterly_trend(series) ==
    IF HasKey(series, "quarterly") /\ HasKey(series["quarterly"], "eps")
    THEN LET recent_eps == Take(series["quarterly"]["eps"], 4)
         IN  IF Len(recent_eps) >= 2
             THEN LET latest == recent_eps[1]["v"]
                      prior == recent_eps[2]["v"]
                  IN  ("latest_quarter_eps" :> latest)
                      @@ ("prior_quarter_eps" :> prior)
                      @@ ("eps_qoq_change" :>
                            Str(IF prior.v # 0
                                THEN FormatRatio((latest.v - prior.v) * 100, Abs(prior.v), 2) \o "%"
                                ELSE format_pct(Num(0), 1)))
             ELSE EmptyDict
    ELSE EmptyDict

\* the keys _assess_overall_health compares with a threshold
HealthComparedKeys ==
    {"netProfitMarginTTM", "currentRatioQuarterly", "totalDebt/totalEquityQuarterly",
     "epsGrowthTTMYoy", "roeTTM"}

\* health_score with an unknown debt/equity read as 0, as the red flag
\* rule reads it
health_score_no_debt(metric) ==
    (IF DictGet(metric, "netProfitMarginTTM", Num(0)).v > Milli(100) THEN 2
     ELSE IF DictGet(metric, "netProfitMarginTTM", Num(0)).v > 0 THEN 1 ELSE 0)
    + (IF DictGet(metric, "currentRatioQuarterly", Num(0)).v > Milli(1500) THEN 2
       ELSE IF DictGet(metric, "currentRatioQuarterly", Num(0)).v > Milli(1000) THEN 1 ELSE 0)
    + (IF DictGet(metric, "totalDebt/totalEquityQuarterly", Num(0)).v < Milli(1000) THEN 2
       ELSE IF DictGet(metric, "totalDebt/totalEquityQuarterly", Num(0)).v < Milli(2000) THEN 1 ELSE 0)
    + (IF DictGet(metric, "epsGrowthTTMYoy", Num(Milli(-100000))).v > Milli(10000) THEN 2
       ELSE IF DictGet(metric, "epsGrowthTTMYoy", Num(Milli(-100000))).v > 0 THEN 1 ELSE 0)
    + (IF DictGet(metric, "roeTTM", Num(0)).v > Milli(150) THEN 2
       ELSE IF DictGet(metric, "roeTTM", Num(0)).v > Milli(100) THEN 1 ELSE 0)

\* lines 231-261: the five ladders of _assess_overall_health
health_score(metric) ==
    (IF DictGet(metric, "netProfitMarginTTM", Num(0)).v > Milli(100) THEN 2
     ELSE IF DictGet(metric, "netProfitMarginTTM", Num(0)).v > 0 THEN 1 ELSE 0)
    + (IF DictGet(metric, "currentRatioQuarterly", Num(0)).v > Milli(1500) THEN 2
       ELSE IF DictGet(metric, "currentRatioQuarterly", Num(0)).v > Milli(1000) THEN 1 ELSE 0)
    + (IF DictGet(metric, "totalDebt/totalEquityQuarterly", Num(Milli(3000))).v < Milli(1000) THEN 2
       ELSE IF DictGet(metric, "totalDebt/totalEquityQuarterly", Num(Milli(3000))).v < Milli(2000) THEN 1 ELSE 0)
    + (IF DictGet(metric, "epsGrowthTTMYoy", Num(Milli(-100000))).v > Milli(10000) THEN 2
       ELSE IF DictGet(metric, "epsGrowthTTMYoy", Num(Milli(-100000))).v > 0 THEN 1 ELSE 0)
    + (IF DictGet(metric, "roeTTM", Num(0)).v > Milli(150) THEN 2
       ELSE IF DictGet(metric, "roeTTM", Num(0)).v > Milli(100) THEN 1 ELSE 0)

\* health_label with Strong from 6 points and Good from 3
health_label_lenient(score) ==
    IF score >= 6 THEN "Strong"
    ELSE IF score >= 3 THEN "Good"
    ELSE IF score >= 1 THEN "Fair"
    ELSE "Weak"

\* lines 263-270
health_label(score) ==
    IF score >= 8 THEN "Strong"
    ELSE IF score >= 5 THEN "Good"
    ELSE IF score >= 3 THEN "Fair"
    ELSE "Weak"

_assess_overall_health(metric) ==
    IF NoneCompared(metric, HealthComparedKeys) THEN Raise("TypeError")
    ELSE Return(Str(health_label(health_score(metric))))

\* str.upper(), character by character
LowerCase == "abcdefghijklmnopqrstuvwxyz"
UpperCase == "ABCDEFGHIJKLMNOPQRSTUVWXYZ"

UpperChar(c) ==
    IF \E i \in 1..Len(LowerCase) : SubSeq(LowerCase, i, i) = c
    THEN LET i == CHOOSE j \in 1..Len(LowerCase) : SubSeq(LowerCase, j, j) = c
         IN  SubSeq(UpperCase, i, i)
    ELSE c

RECURSIVE upper(_)
upper(s) ==
    IF Len(s) = 0 THEN ""
    ELSE UpperChar(SubSeq(s, 1, 1)) \o upper(SubSeq(s, 2, Len(s)))

\* the list passed through, an empty one included
or_none_identified_skipped(xs) == xs

\* lines 219-220: `xs if xs else ["None identified"]`
or_none_identified(xs) == IF xs # << >> THEN xs ELSE <<Str("None identified")>>

\* lines 47-49 and 207-224
summarize_finnhub_financials(d) ==
    LET metric == DictGet(d, "metric", EmptyDict)
        symbol == DictGet(d, "symbol", "UNKNOWN")
        series == DictGet(d, "series", EmptyDict)
    IN  IF NoneCompared(metric, SummarizeComparedKeys) THEN Raise("TypeError")
        ELSE LET health == _assess_overall_health(metric)
             IN  IF health.exc # "none" THEN health
                 ELSE Return(
                     ("company" :> Str(upper(symbol)))
                     @@ ("snapshot_date" :> Str("Latest Available"))
                     @@ ("valuation" :> valuation(metric))
                     @@ ("profitability" :> profitability(metric))
                     @@ ("liquidity" :> liquidity(metric))
                     @@ ("leverage" :> leverage(metric))
                     @@ ("efficiency" :> efficiency(metric))
                     @@ ("performance" :> performance(metric))
                     @@ ("stock_performance" :> stock_performance(metric))
                     @@ ("quarterly_trend" :> quarterly_trend(series))
                     @@ ("highlights" :> or_none_identified(highlights(metric)))
                     @@ ("red_flags" :> or_none_identified(red_flags(metric)))
                     @@ ("overall_health" :> health.value))

---------------------------------------------------------------------------
(* utils/financial_report_compressor_util.py: create_comprehensive_summary *)

\* fmt rendering a missing value as the number 0
fmt_null_as_zero(m, key, mult, dec, suf) ==
    LET val == DictGet(m, key, None)
    IN  FormatFixed((IF val # None THEN val.v ELSE 0) * mult, dec) \o suf

\* fmt(key, mult, dec, suf): f"{float(val)*mult:.{dec}f}{suf}", 'N/A' for
\* an absent or null value
fmt(m, key, mult, dec, suf) ==
    LET val == DictGet(m, key, None)
    IN  IF val # None THEN FormatFixed(val.v * mult, dec) \o suf ELSE "N/A"

\* sep.join(parts)
RECURSIVE Join(_, _)
Join(parts, sep) ==
    IF Len(parts) = 0 THEN ""
    ELSE IF Len(parts) = 1 THEN parts[1]
    ELSE parts[1] \o sep \o Join(Tail(parts), sep)

\* reversed(xs)
Reverse(xs) == [i \in 1..Len(xs) |-> xs[Len(xs) + 1 - i]]

\* [f"{item['v']:.2f}" for item in items]
RenderPoints(items) == [i \in 1..Len(items) |-> FormatFixed(items[i]["v"].v, 2)]

\* comprehensive_get_trend keeping the provider's order (no reversed())
comprehensive_get_trend_unreversed(q_series, series_name, periods) ==
    IF ~HasKey(q_series, series_name) \/ Len(q_series[series_name]) < periods THEN None
    ELSE Str(Join(RenderPoints(Take(q_series[series_name], periods)), " → "))

\* get_trend(series_name, periods) of create_comprehensive_summary:
\* None, or the rendered values as a str
comprehensive_get_trend(q_series, series_name, periods) ==
    IF ~HasKey(q_series, series_name) \/ Len(q_series[series_name]) < periods THEN None
    ELSE Str(Join(RenderPoints(Reverse(Take(q_series[series_name], periods))), " → "))

\* line 30
brief(symbol, m) ==
    symbol \o ": PE " \o fmt(m, "peTTM", 1, 2, "")
    \o " (PEG " \o fmt(m, "pegTTM", 1, 2, "")
    \o "), EPS $" \o fmt(m, "epsTTM", 1, 2, "")
    \o " (" \o fmt(m, "epsGrowthTTMYoy", 100, 1, "%")
    \o " YoY), ROE " \o fmt(m, "roeTTM", 100, 1, "%")
    \o ", D/E " \o fmt(m, "totalDebt/totalEquityQuarterly", 1, 2, "")
    \o ", YTD " \o fmt(m, "yearToDatePriceReturnDaily", 100, 1, "%")

\* lines 33-48
standard_sections(m) ==
    << "VALUATION: PE " \o fmt(m, "peTTM", 1, 2, "")
         \o " (Fwd " \o fmt(m, "forwardPE", 1, 2, "")
         \o "), PEG " \o fmt(m, "pegTTM", 1, 2, "")
         \o ", P/B " \o fmt(m, "pb", 1, 2, "")
         \o ", P/S " \o fmt(m, "psTTM", 1, 2, "")
         \o ", EV/EBITDA " \o fmt(m, "evEbitdaTTM", 1, 2, ""),
       "PROFITABILITY: EPS $" \o fmt(m, "epsTTM", 1, 2, "")
         \o " (" \o fmt(m, "epsGrowthTTMYoy", 100, 1, "%")
         \o " YoY), ROE " \o fmt(m, "roeTTM", 100, 1, "%")
         \o ", ROA " \o fmt(m, "roaTTM", 100, 1, "%")
         \o ", Net Margin " \o fmt(m, "netProfitMarginTTM", 100, 1, "%")
         \o ", Op Margin " \o fmt(m, "operatingMarginTTM", 100, 1, "%"),
       "GROWTH: Revenue " \o fmt(m, "revenueGrowthTTMYoy", 100, 1, "%")
         \o " YoY, 3Y " \o fmt(m, "revenueGrowth3Y", 100, 1, "%")
         \o ", 5Y " \o fmt(m, "revenueGrowth5Y", 100, 1, "%")
         \o ", EPS 3Y " \o fmt(m, "epsGrowth3Y", 100, 1, "%")
         \o ", 5Y " \o fmt(m, "epsGrowth5Y", 100, 1, "%"),
       "HEALTH: D/E " \o fmt(m, "totalDebt/totalEquityQuarterly", 1, 2, "")
         \o ", Current " \o fmt(m, "currentRatioQuarterly", 1, 2, "")
         \o ", Quick " \o fmt(m, "quickRatioQuarterly", 1, 2, "")
         \o ", Cash/Share $" \o fmt(m, "cashPerSharePerShareQuarterly", 1, 2, ""),
       "PERFORMANCE: YTD " \o fmt(m, "yearToDatePriceReturnDaily", 100, 1, "%")
         \o ", 52W " \o fmt(m, "52WeekPriceReturnDaily", 100, 1, "%")
         \o ", vs S&P " \o fmt(m, "priceRelativeToS&P50052Week", 100, 1, "%")
         \o ", Beta " \o fmt(m, "beta", 1, 2, "") >>

\* lines 65-67: `if div_yield and div_yield > 0`
dividend_section(m) ==
    LET div_yield == DictGet(m, "currentDividendYieldTTM", None)
    IN  IF div_yield # None /\ div_yield.v # 0 /\ div_yield.v > 0
        THEN << "DIVIDEND: Yield " \o fmt(m, "currentDividendYieldTTM", 100, 2, "%")
                  \o ", Payout Ratio " \o fmt(m, "payoutRatioTTM", 100, 1, "%")
                  \o ", DPS $" \o fmt(m, "dividendPerShareTTM", 1, 2, "") >>
        ELSE << >>

\* a str is truthy when it is not None and not empty
Truthy(x) == x # None /\ x # Str("")

\* lines 73-87
quarterly_trends_section(q_series) ==
    LET eps_trend == comprehensive_get_trend(q_series, "eps", 4)
        margin_trend == comprehensive_get_trend(q_series, "netMargin", 4)
        roe_trend == comprehensive_get_trend(q_series, "roeTTM", 4)
        trends == (IF Truthy(eps_trend) THEN <<"EPS (4Q): " \o eps_trend.s>> ELSE << >>)
                  \o (IF Truthy(margin_trend) THEN <<"Net Margin: " \o margin_trend.s>> ELSE << >>)
                  \o (IF Truthy(roe_trend) THEN <<"ROE: " \o roe_trend.s>> ELSE << >>)
    IN  IF trends # << >> THEN <<"QUARTERLY TRENDS: " \o Join(trends, " | ")>> ELSE << >>

\* lines 90-92
annual_eps_section(a_series) ==
    IF HasKey(a_series, "eps") /\ Len(a_series["eps"]) >= 3
    THEN <<"ANNUAL EPS (3Y): "
             \o Join(RenderPoints(Reverse(Take(a_series["eps"], 3))), " → ")>>
    ELSE << >>

\* lines 56-92: the sections the detailed level adds
detailed_sections(m, q_series, a_series) ==
    << "CASH FLOW: FCF/Share $" \o fmt(m, "cashFlowPerShareTTM", 1, 2, "")
         \o ", FCF Margin " \o fmt(m, "focfCagr5Y", 100, 1, "%")
         \o " (5Y CAGR), P/FCF " \o fmt(m, "pfcfShareTTM", 1, 2, ""),
       "MARGINS: Gross " \o fmt(m, "grossMarginTTM", 100, 1, "%")
         \o ", Operating " \o fmt(m, "operatingMarginTTM", 100, 1, "%")
         \o ", Pretax " \o fmt(m, "pretaxMarginTTM", 100, 1, "%")
         \o ", Net " \o fmt(m, "netProfitMarginTTM", 100, 1, "%"),
       "EFFICIENCY: Asset Turnover " \o fmt(m, "assetTurnoverTTM", 1, 2, "")
         \o ", Inventory Turnover " \o fmt(m, "inventoryTurnoverTTM", 1, 2, "")
         \o ", Receivables Turnover " \o fmt(m, "receivablesTurnoverTTM", 1, 2, "") >>
    \o dividend_section(m)
    \o << "PRICE RANGE: 52W High $" \o fmt(m, "52WeekHigh", 1, 2, "")
            \o ", Low $" \o fmt(m, "52WeekLow", 1, 2, "")
            \o ", Current P/B " \o fmt(m, "pb", 1, 2, "")
            \o " vs Annual P/B " \o fmt(m, "pbAnnual", 1, 2, "") >>
    \o quarterly_trends_section(q_series)
    \o annual_eps_section(a_series)

\* create_comprehensive_summary giving the standard text for every level
\* other than 'brief' and 'detailed'
create_comprehensive_summary_standard_fallback(d, detail_level) ==
    LET m == DictGet(d, "metric", EmptyDict)
        symbol == DictGet(d, "symbol", "Unknown")
        q_series == DictGet(DictGet(d, "series", EmptyDict), "quarterly", EmptyDict)
        a_series == DictGet(DictGet(d, "series", EmptyDict), "annual", EmptyDict)
    IN  IF detail_level = "brief" THEN Return(Str(brief(symbol, m)))
        ELSE IF detail_level # "detailed"
        THEN Return(Str(symbol \o " Financial Summary:\n\n"
                        \o Join(standard_sections(m), "\n\n")))
        ELSE Return(Str(symbol \o " Comprehensive Financial Analysis:\n\n"
                        \o Join(standard_sections(m) \o detailed_sections(m, q_series, a_series),
                                "\n\n")))

\* lines 12-15 and the dispatch on detail_level of lines 29, 50 and 94:
\* any level other than 'brief' and 'standard' reaches the detailed text
create_comprehensive_summary(d, detail_level) ==
    LET m == DictGet(d, "metric", EmptyDict)
        symbol == DictGet(d, "symbol", "Unknown")
        q_series == DictGet(DictGet(d, "series", EmptyDict), "quarterly", EmptyDict)
        a_series == DictGet(DictGet(d, "series", EmptyDict), "annual", EmptyDict)
    IN  IF detail_level = "brief" THEN Return(Str(brief(symbol, m)))
        ELSE IF detail_level = "standard"
        THEN Return(Str(symbol \o " Financial Summary:\n\n"
                        \o Join(standard_sections(m), "\n\n")))
        ELSE Return(Str(symbol \o " Comprehensive Financial Analysis:\n\n"
                        \o Join(standard_sections(m) \o detailed_sections(m, q_series, a_series),
                                "\n\n")))

---------------------------------------------------------------------------
(* utils/financial_report_compressor_util.py: create_structured_compression *)

\* the position of the first occurrence of sub in s, 0 when there is none
FirstIndex(s, sub) ==
    LET hits == {i \in 1..(Len(s) - Len(sub) + 1) : SubSeq(s, i, i + Len(sub) - 1) = sub}
    IN  IF hits = {} THEN 0 ELSE CHOOSE i \in hits : \A j \in hits : i <= j

\* sub in s
In(sub, s) == FirstIndex(s, sub) # 0

\* s.replace(old, ''): every occurrence, left to right
RECURSIVE Remove(_, _)
Remove(s, old) ==
    LET i == FirstIndex(s, old)
    IN  IF i = 0 THEN s
        ELSE SubSeq(s, 1, i - 1) \o Remove(SubSeq(s, i + Len(old), Len(s)), old)

LowerChar(c) ==
    IF \E i \in 1..Len(UpperCase) : SubSeq(UpperCase, i, i) = c
    THEN LET i == CHOOSE j \in 1..Len(UpperCase) : SubSeq(UpperCase, j, j) = c
         IN  SubSeq(LowerCase, i, i)
    ELSE c

RECURSIVE lower(_)
lower(s) ==
    IF Len(s) = 0 THEN ""
    ELSE LowerChar(SubSeq(s, 1, 1)) \o lower(SubSeq(s, 2, Len(s)))

Buckets ==
    {"valuation", "profitability", "growth", "health", "performance", "efficiency",
     "dividend"}

\* the `if` clause of each bucket's comprehension
BucketMatches(bucket, k) ==
    CASE bucket = "valuation" ->
            \E x \in {"pe", "pb", "ps", "peg", "ev", "pfcf", "pcf"} : In(x, k)
      [] bucket = "profitability" ->
            \E x \in {"eps", "roe", "roa", "roi", "margin", "roic"} : In(x, k)
      [] bucket = "growth" -> In("Growth", k) \/ In("Cagr", k)
      [] bucket = "health" -> \E x \in {"Debt", "Ratio", "cash"} : In(x, k)
      [] bucket = "performance" -> In("Return", k) \/ In("Week", k) \/ In("beta", lower(k))
      [] bucket = "efficiency" -> In("Turnover", k) \/ In("Employee", k)
      [] bucket = "dividend" -> In("dividend", lower(k)) \/ In("payout", lower(k))

\* the key expression of each bucket's comprehension
BucketKey(bucket, k) ==
    CASE bucket = "valuation" -> Remove(Remove(Remove(k, "TTM"), "Annual"), "Quarterly")
      [] bucket = "profitability" -> Remove(Remove(k, "TTM"), "Annual")
      [] bucket = "health" -> Remove(Remove(k, "Quarterly"), "Annual")
      [] OTHER -> k

\* {BucketKey(k): v for k, v in m.items() if BucketMatches(k)}: m.items()
\* runs in the insertion order key_order, a later item replacing an
\* earlier one stored under the same key
BucketOf(bucket, m, key_order) ==
    LET matched == SelectSeq(key_order, LAMBDA k : BucketMatches(bucket, k))
        last(nk) == CHOOSE i \in 1..Len(matched) :
                        /\ BucketKey(bucket, matched[i]) = nk
                        /\ \A j \in (i + 1)..Len(matched) : BucketKey(bucket, matched[j]) # nk
    IN  [nk \in {BucketKey(bucket, matched[i]) : i \in 1..Len(matched)} |-> m[matched[last(nk)]]]

\* {metric: values[:n] for metric, values in series.items()}
RecentPoints(series, n) == [name \in DOMAIN series |-> Take(series[name], n)]

\* lines 104-159; key_order is the insertion order of data['metric']
create_structured_compression(d, key_order) ==
    LET m == DictGet(d, "metric", EmptyDict)
        q == DictGet(DictGet(d, "series", EmptyDict), "quarterly", EmptyDict)
        a == DictGet(DictGet(d, "series", EmptyDict), "annual", EmptyDict)
    IN  Return(
            ("symbol" :> (IF HasKey(d, "symbol") THEN Str(d["symbol"]) ELSE None))
            @@ [bucket \in Buckets |-> BucketOf(bucket, m, key_order)]
            @@ ("trends_quarterly" :> RecentPoints(q, 4))
            @@ ("trends_annual" :> RecentPoints(a, 3)))

---------------------------------------------------------------------------
(* Raw records *)

\* marks a key left out of a dict under construction
Absent == [tag |-> "absent"]

\* the dict holding the keys of `choice` that are not Absent
MakeDict(choice) == [k \in {j \in DOMAIN choice : choice[j] # Absent} |-> choice[k]]

\* {v: x, period: p}, one point of a series
Point(x, p) == ("v" :> Num(x)) @@ ("period" :> Str(p))

CurrentRatioValues ==
    {Absent, None, Num(Milli(800)), Num(Milli(1000)), Num(Milli(1800)), Num(Milli(2000)),
     Num(Milli(2500))}
DebtToEquityValues == {Absent, None, Num(Milli(500)), Num(Milli(2000)), Num(Milli(2500))}
NetMarginValues == {Absent, None, Num(Milli(-50)), Num(0), Num(Milli(150))}
EpsGrowthValues ==
    {Absent, None, Num(Milli(-25000)), Num(Milli(-20000)), Num(Milli(20000)), Num(Milli(25000))}
RoeValues == {Absent, None, Num(Milli(200)), Num(Milli(250))}
QuickRatioValues == {Absent, None, Num(Milli(300)), Num(Milli(500))}
RevenueGrowthValues == {Absent, None, Num(Milli(15000)), Num(Milli(20000))}

\* the keys the summary only displays: all absent, all null, all known
DisplayedMetrics ==
    { EmptyDict,
      ("peTTM" :> None) @@ ("grossMarginTTM" :> None) @@ ("netMarginGrowth5Y" :> None)
          @@ ("52WeekPriceReturnDaily" :> None),
      ("peTTM" :> Num(Milli(15500))) @@ ("grossMarginTTM" :> Num(Milli(425)))
          @@ ("netMarginGrowth5Y" :> Num(Milli(12000)))
          @@ ("52WeekPriceReturnDaily" :> Num(Milli(-7310))) }

\* symbol and series around the metric mapping
Envelopes ==
    { EmptyDict,
      ("symbol" :> "aapl") @@ ("series" :> EmptyDict),
      ("symbol" :> "MsFt")
          @@ ("series" :> ("quarterly" :> ("eps" :> <<Point(Milli(1500), "2024-06-30")>>))),
      ("symbol" :> "AAPL")
          @@ ("series" :> ("quarterly" :>
                ("eps" :> <<Point(Milli(1500), "2024-06-30"), Point(Milli(1200), "2024-03-31")>>))) }

Init ==
    \E cr \in CurrentRatioValues, de \in DebtToEquityValues, nm \in NetMarginValues,
       eg \in EpsGrowthValues, roe \in RoeValues, qr \in QuickRatioValues,
       rg \in RevenueGrowthValues, shown \in DisplayedMetrics, env \in Envelopes,
       withMetric \in BOOLEAN :
        LET metric == MakeDict(("currentRatioQuarterly" :> cr)
                               @@ ("totalDebt/totalEquityQuarterly" :> de)
                               @@ ("netProfitMarginTTM" :> nm)
                               @@ ("epsGrowthTTMYoy" :> eg)
                               @@ ("roeTTM" :> roe)
                               @@ ("quickRatioQuarterly" :> qr)
                               @@ ("revenueGrowthTTMYoy" :> rg)) @@ shown
        IN  /\ withMetric \/ metric = EmptyDict
            /\ data = (IF withMetric THEN ("metric" :> metric) ELSE EmptyDict) @@ env
            /\ args = EmptyDict
            /\ pc = "start"
            /\ result = None

\* the agent calls the tool on the record it holds
Summarize ==
    /\ pc = "start"
    /\ result' = summarize_finnhub_financials(data)
    /\ pc' = "done"
    /\ UNCHANGED <<data, args>>

Next == Summarize

Spec == Init /\ [][Next]_vars

---------------------------------------------------------------------------
(* Claims about summarize_finnhub_financials, checked under Spec *)

Metric == DictGet(data, "metric", EmptyDict)

\* the metric mapping with its null-valued keys removed
WithoutNulls(m) == [k \in {j \in DOMAIN m : m[j] # None} |-> m[k]]

HasNull(m) == \E k \in DOMAIN m : m[k] = None

\* the key is present with a number
Known(m, k) == HasKey(m, k) /\ IsNum(m[k])

\* C1: a record whose looked-up metric keys are each absent, null or a
\* number is summarised without an error, and a null-valued key gives the
\* summary of the same record with that key removed.
C1_NullTreatedAsAbsent ==
    pc = "done" =>
        /\ result.exc = "none"
        /\ result = summarize_finnhub_financials(
                        ("metric" :> WithoutNulls(Metric)) @@ data)

\* the categories filled from the metric mapping
MetricCategories ==
    {"valuation", "profitability", "liquidity", "leverage", "efficiency",
     "performance", "stock_performance"}

AllCategories == MetricCategories \cup {"quarterly_trend"}

\* the qualitative field of a category and its label for an empty mapping
DefaultLabels ==
    ("trend" :> Str("stable")) @@ ("working_capital_status" :> Str("tight"))
    @@ ("leverage_assessment" :> Str("low"))

FieldIsDefault(cat, f) ==
    \/ cat[f] = Str("N/A")
    \/ f \in DOMAIN DefaultLabels /\ cat[f] = DefaultLabels[f]

ListsAndHealthOfEmpty(summary) ==
    /\ summary["highlights"] = <<Str("None identified")>>
    /\ summary["red_flags"] = <<Str("None identified")>>
    /\ summary["overall_health"] = Str("Weak")

\* C3 as stated: with an empty metric mapping every field of every
\* category is "N/A" or the category's default label, both lists are
\* ["None identified"] and the health is "Weak".
C3_EmptyMetricAllDefault ==
    (pc = "done" /\ HasKey(data, "metric") /\ Metric = EmptyDict) =>
        /\ result.exc = "none"
        /\ \A c \in AllCategories :
              \A f \in DOMAIN result.value[c] : FieldIsDefault(result.value[c], f)
        /\ ListsAndHealthOfEmpty(result.value)

\* the fields rendered through format_pct
PercentFields ==
    {"eps_growth_ttm_yoy", "eps_growth_3y", "net_margin_ttm", "operating_margin_ttm",
     "gross_margin_ttm", "roe_ttm", "roa_ttm", "roic_ttm", "revenue_growth_ttm_yoy",
     "revenue_growth_3y", "dividend_yield", "52_week_return", "ytd_return",
     "vs_sp500_52week", "vs_sp500_ytd"}

\* C3 amended: with an empty metric mapping every percentage field is
\* "N/A", every qualitative field is its default label, every other field
\* of the seven metric categories is null (not "N/A"), both lists are
\* ["None identified"] and the health is "Weak"; quarterly_trend comes from
\* the series alone and holds no "N/A".
C3_EmptyMetricDefaults ==
    (pc = "done" /\ Metric = EmptyDict) =>
        /\ result.exc = "none"
        /\ \A c \in MetricCategories :
              \A f \in DOMAIN result.value[c] :
                 result.value[c][f] =
                    (IF f \in PercentFields THEN Str("N/A")
                     ELSE IF f \in DOMAIN DefaultLabels THEN DefaultLabels[f]
                     ELSE None)
        /\ \A f \in DOMAIN result.value["quarterly_trend"] :
              result.value["quarterly_trend"][f] # Str("N/A")
        /\ ListsAndHealthOfEmpty(result.value)

C3_Witness ==
    /\ pc = "done"
    /\ Metric = EmptyDict
    /\ HasKey(data, "metric")
    /\ result.exc = "none"
    /\ result.value["valuation"]["pe_ttm"] = None
    /\ result.value["profitability"]["roe_ttm"] = Str("N/A")
    /\ DOMAIN result.value["quarterly_trend"] # {}

\* True when `s` starts with `prefix`
StartsWith(s, prefix) == Len(s) >= Len(prefix) /\ SubSeq(s, 1, Len(prefix)) = prefix

\* the red flag rules of the claim, in order: does the rule fire, and the
\* text its message starts with
RedFlagRules(m) ==
    << [fires |-> Known(m, "currentRatioQuarterly") /\ m["currentRatioQuarterly"].v < Milli(1000),
        text |-> "Liquidity concern: Current ratio below 1.0"],
       [fires |-> Known(m, "totalDebt/totalEquityQuarterly")
                    /\ m["totalDebt/totalEquityQuarterly"].v > Milli(2000),
        text |-> "High leverage: Debt-to-equity above 2.0"],
       [fires |-> Known(m, "netProfitMarginTTM") /\ m["netProfitMarginTTM"].v < 0,
        text |-> "Unprofitable: Negative net margin"],
       [fires |-> Known(m, "epsGrowthTTMYoy") /\ m["epsGrowthTTMYoy"].v < Milli(-20000),
        text |-> "Significant EPS decline: "],
       [fires |-> Known(m, "quickRatioQuarterly") /\ m["quickRatioQuarterly"].v < Milli(500),
        text |-> "Very low quick ratio: May struggle with short-term obligations"] >>

HighlightRules(m) ==
    << [fires |-> Known(m, "epsGrowthTTMYoy") /\ m["epsGrowthTTMYoy"].v > Milli(20000),
        text |-> "Strong EPS growth: "],
       [fires |-> Known(m, "roeTTM") /\ m["roeTTM"].v > Milli(200),
        text |-> "Excellent ROE: "],
       [fires |-> Known(m, "currentRatioQuarterly") /\ m["currentRatioQuarterly"].v > Milli(2000),
        text |-> "Strong liquidity position"],
       [fires |-> Known(m, "revenueGrowthTTMYoy") /\ m["revenueGrowthTTMYoy"].v > Milli(15000),
        text |-> "High revenue growth: "] >>

Fired(rules) == SelectSeq(rules, LAMBDA r : r.fires)

\* the messages of a summary list, ["None identified"] standing for none
Messages(list) == IF list = <<Str("None identified")>> THEN << >> ELSE list

\* the messages are those of the fired rules, one each, in rule order
MatchesRules(list, rules) ==
    /\ Len(Messages(list)) = Len(Fired(rules))
    /\ \A i \in 1..Len(Fired(rules)) : StartsWith(Messages(list)[i].s, Fired(rules)[i].text)

\* C5: for a metric mapping of absent-or-numeric values, red_flags holds
\* exactly the messages of the red flag rules that fire, in rule order, and
\* highlights those of the highlight rules; a rule fires only on a strict
\* crossing of its threshold by its own metric, never for an absent key.
C5_FlagsAreFiredRules ==
    (pc = "done" /\ ~HasNull(Metric)) =>
        /\ result.exc = "none"
        /\ MatchesRules(result.value["red_flags"], RedFlagRules(Metric))
        /\ MatchesRules(result.value["highlights"], HighlightRules(Metric))

C5_Witness ==
    /\ pc = "done"
    /\ ~HasNull(Metric)
    /\ result.exc = "none"
    /\ Len(result.value["red_flags"]) = 4
    /\ Len(result.value["highlights"]) = 2
    /\ ~HasKey(Metric, "quickRatioQuarterly")

\* C6: highlights and red_flags are never empty; a list is
\* ["None identified"] exactly when none of its rules fired, and
\* "None identified" never stands beside a real message.
C6_ListsNeverEmpty ==
    (pc = "done" /\ result.exc = "none") =>
        \A name \in {"highlights", "red_flags"} :
            LET list == result.value[name]
                rules == IF name = "red_flags" THEN RedFlagRules(Metric)
                         ELSE HighlightRules(Metric)
            IN  /\ Len(list) >= 1
                /\ (list = <<Str("None identified")>>) <=> (Fired(rules) = << >>)
                /\ Len(list) > 1 =>
                      \A i \in 1..Len(list) : list[i] # Str("None identified")

C6_Witness ==
    /\ pc = "done"
    /\ result.exc = "none"
    /\ result.value["red_flags"] = <<Str("None identified")>>
    /\ Len(result.value["highlights"]) = 3
    /\ Metric # EmptyDict

---------------------------------------------------------------------------
(* _assess_overall_health called on a metric mapping: SpecHealth *)

ScoredNetMargins ==
    {Absent, None, Num(Milli(-50)), Num(0), Num(Milli(50)), Num(Milli(100)), Num(Milli(150))}
ScoredCurrentRatios ==
    {Absent, None, Num(Milli(800)), Num(Milli(1000)), Num(Milli(1200)), Num(Milli(1500)),
     Num(Milli(1800))}
ScoredDebtToEquity ==
    {Absent, None, Num(Milli(500)), Num(Milli(1000)), Num(Milli(1500)), Num(Milli(2000)),
     Num(Milli(2500))}
ScoredEpsGrowth ==
    {Absent, None, Num(Milli(-25000)), Num(0), Num(Milli(5000)), Num(Milli(10000)),
     Num(Milli(15000))}
ScoredRoe ==
    {Absent, None, Num(Milli(50)), Num(Milli(100)), Num(Milli(120)), Num(Milli(150)),
     Num(Milli(180))}

InitHealth ==
    \E nm \in ScoredNetMargins, cr \in ScoredCurrentRatios, de \in ScoredDebtToEquity,
       eg \in ScoredEpsGrowth, roe \in ScoredRoe :
        /\ data = ("metric" :> MakeDict(("netProfitMarginTTM" :> nm)
                                        @@ ("currentRatioQuarterly" :> cr)
                                        @@ ("totalDebt/totalEquityQuarterly" :> de)
                                        @@ ("epsGrowthTTMYoy" :> eg)
                                        @@ ("roeTTM" :> roe)))
        /\ args = EmptyDict
        /\ pc = "start"
        /\ result = None

AssessHealth ==
    /\ pc = "start"
    /\ result' = _assess_overall_health(data["metric"])
    /\ pc' = "done"
    /\ UNCHANGED <<data, args>>

NextHealth == AssessHealth

SpecHealth == InitHealth /\ [][NextHealth]_vars

\* 2 points above `high`, 1 above `low`, 0 otherwise and for an absent key
PointsAbove(m, k, high, low) ==
    IF ~Known(m, k) THEN 0
    ELSE IF m[k].v > high THEN 2 ELSE IF m[k].v > low THEN 1 ELSE 0

\* 2 points below `low`, 1 below `high`, 0 otherwise and for an absent key
PointsBelow(m, k, low, high) ==
    IF ~Known(m, k) THEN 0
    ELSE IF m[k].v < low THEN 2 ELSE IF m[k].v < high THEN 1 ELSE 0

\* the score S of the claim
ClaimedScore(m) ==
    PointsAbove(m, "netProfitMarginTTM", Milli(100), 0)
    + PointsAbove(m, "currentRatioQuarterly", Milli(1500), Milli(1000))
    + PointsBelow(m, "totalDebt/totalEquityQuarterly", Milli(1000), Milli(2000))
    + PointsAbove(m, "epsGrowthTTMYoy", Milli(10000), 0)
    + PointsAbove(m, "roeTTM", Milli(150), Milli(100))

\* C4: for a metric mapping whose scored keys are absent or numeric,
\* _assess_overall_health returns Strong iff S >= 8, Good iff 5 <= S <= 7,
\* Fair iff 3 <= S <= 4 and Weak iff S < 3, S in 0..10 being the sum of
\* the five strict ladders, an absent key scoring 0.
C4_HealthFromScore ==
    (pc = "done" /\ ~HasNull(Metric)) =>
        LET S == ClaimedScore(Metric)
            label == result.value
        IN  /\ result.exc = "none"
            /\ S \in 0..10
            /\ (label = Str("Strong")) <=> (S >= 8)
            /\ (label = Str("Good")) <=> (5 <= S /\ S <= 7)
            /\ (label = Str("Fair")) <=> (3 <= S /\ S <= 4)
            /\ (label = Str("Weak")) <=> (S < 3)

C4_Witness ==
    /\ pc = "done"
    /\ ~HasNull(Metric)
    /\ ~HasKey(Metric, "totalDebt/totalEquityQuarterly")
    /\ ClaimedScore(Metric) = 8
    /\ result = Return(Str("Strong"))

---------------------------------------------------------------------------
(* get_trend(current, growth) called on its own: SpecTrend *)

TrendCurrents ==
    {None, Num(Milli(-50)), Num(0), Num(Milli(50)), Num(Milli(150)), Num(Milli(1000)),
     Num(Milli(25000))}

TrendGrowths ==
    {None, Num(Milli(-15000)), Num(Milli(-10000) - 1), Num(Milli(-10000)),
     Num(Milli(-10000) + 1), Num(Milli(-5000)), Num(-1), Num(0), Num(1), Num(Milli(3000)),
     Num(Milli(5000)), Num(Milli(5000) + 1), Num(Milli(8000)), Num(Milli(10000)),
     Num(Milli(10000) + 1), Num(Milli(15000))}

InitTrend ==
    \E c \in TrendCurrents, g \in TrendGrowths :
        /\ data = EmptyDict
        /\ args = ("current" :> c) @@ ("growth" :> g)
        /\ pc = "start"
        /\ result = None

ClassifyTrend ==
    /\ pc = "start"
    /\ result' = Return(Str(get_trend(args["current"], args["growth"])))
    /\ pc' = "done"
    /\ UNCHANGED <<data, args>>

NextTrend == ClassifyTrend

SpecTrend == InitTrend /\ [][NextTrend]_vars

\* C8: get_trend returns "stable" if either argument is unknown; otherwise
\* "strong growth" for growth > 10, "moderate growth" for 5 < growth <= 10,
\* "stable" for 0 <= growth <= 5, "slight decline" for -10 <= growth < 0
\* and "declining" for growth < -10, whatever the known value of current.
C8_TrendLadder ==
    pc = "done" =>
        LET g == args["growth"]
            label == result.value.s
        IN  /\ result.exc = "none"
            /\ (g = None \/ args["current"] = None) => label = "stable"
            /\ (g # None /\ args["current"] # None) =>
                  /\ (label = "strong growth") <=> (g.v > Milli(10000))
                  /\ (label = "moderate growth") <=> (Milli(5000) < g.v /\ g.v <= Milli(10000))
                  /\ (label = "stable") <=> (0 <= g.v /\ g.v <= Milli(5000))
                  /\ (label = "slight decline") <=> (Milli(-10000) <= g.v /\ g.v < 0)
                  /\ (label = "declining") <=> (g.v < Milli(-10000))
                  /\ \A c \in TrendCurrents \ {None} : get_trend(c, g) = label

C8_Witness ==
    /\ pc = "done"
    /\ args["current"] = Num(Milli(-50))
    /\ args["growth"] = Num(Milli(-10000))
    /\ result = Return(Str("slight decline"))

\* C9 as stated: for a known current, growth of exactly 10 gives "stable"
\* and every growth above 10 gives "strong growth".
C9_TenIsStable ==
    (pc = "done" /\ args["current"] # None /\ args["growth"] # None) =>
        /\ args["growth"].v = Milli(10000) => result = Return(Str("stable"))
        /\ args["growth"].v > Milli(10000) => result = Return(Str("strong growth"))

\* C9 amended: for a known current, growth of exactly 10 gives
\* "moderate growth" (10 is not above 10 but is above 5) and every growth
\* above 10, 10.0001 included, gives "strong growth".
C9_TenIsModerate ==
    (pc = "done" /\ args["current"] # None /\ args["growth"] # None) =>
        /\ args["growth"].v = Milli(10000) => result = Return(Str("moderate growth"))
        /\ args["growth"].v > Milli(10000) => result = Return(Str("strong growth"))

C9_Witness ==
    /\ pc = "done"
    /\ args["current"] # None
    /\ args["growth"] = Num(Milli(10000))
    /\ result = Return(Str("moderate growth"))

---------------------------------------------------------------------------
(* create_comprehensive_summary called on a record: SpecComprehensive *)

RecognizedLevels == {"brief", "standard", "detailed"}

DetailLevels == RecognizedLevels \cup {"full", "Standard", ""}

FourQuarters ==
    <<Point(Milli(1520), "2024-06-30"), Point(Milli(1400), "2024-03-31"),
      Point(Milli(-250), "2023-12-31"), Point(Milli(1310), "2023-09-30")>>

ThreeYears ==
    <<Point(Milli(6130), "2023"), Point(Milli(6110), "2022"), Point(Milli(5610), "2021")>>

\* data['series']: absent, empty, short of the four quarters, complete
SeriesChoices ==
    { Absent, EmptyDict,
      ("quarterly" :> ("eps" :> Take(FourQuarters, 3))) @@ ("annual" :> EmptyDict),
      ("quarterly" :> (("eps" :> FourQuarters) @@ ("roeTTM" :> FourQuarters))),
      ("quarterly" :> ("netMargin" :> FourQuarters)) @@ ("annual" :> ("eps" :> ThreeYears)) }

InitComprehensive ==
    \E pe \in {Absent, None, Num(Milli(15500))},
       eg \in {Absent, Num(Milli(120)), Num(Milli(12000))},
       roe \in {Absent, None, Num(Milli(200))},
       dy \in {Absent, None, Num(0), Num(Milli(12))},
       series \in SeriesChoices,
       symbol \in {EmptyDict, ("symbol" :> "AAPL")},
       withMetric \in BOOLEAN,
       level \in DetailLevels :
        LET metric == MakeDict(("peTTM" :> pe) @@ ("epsGrowthTTMYoy" :> eg)
                               @@ ("roeTTM" :> roe) @@ ("currentDividendYieldTTM" :> dy))
        IN  /\ withMetric \/ metric = EmptyDict
            /\ data = (IF withMetric THEN ("metric" :> metric) ELSE EmptyDict)
                      @@ (IF series = Absent THEN EmptyDict ELSE ("series" :> series))
                      @@ symbol
            /\ args = ("detail_level" :> level)
            /\ pc = "start"
            /\ result = None

Comprehensive ==
    /\ pc = "start"
    /\ result' = create_comprehensive_summary(data, args["detail_level"])
    /\ pc' = "done"
    /\ UNCHANGED <<data, args>>

NextComprehensive == Comprehensive

SpecComprehensive == InitComprehensive /\ [][NextComprehensive]_vars

\* C2: a detail_level other than brief, standard and detailed makes
\* create_comprehensive_summary fail with InvalidDetailLevel, without a
\* rendering: it never yields the output of a recognized level.
C2_UnrecognizedLevelFails ==
    (pc = "done" /\ args["detail_level"] \notin RecognizedLevels) =>
        /\ result.exc = "InvalidDetailLevel"
        /\ \A level \in RecognizedLevels :
              result # create_comprehensive_summary(data, level)

---------------------------------------------------------------------------
(* get_trend(series_name, periods) of create_comprehensive_summary called *)
(* on a quarterly series: SpecSeries                                      *)

\* the longest series tried
MaxLen == 5

\* periods=4, the default of get_trend, and the largest value tried
DefaultPeriods == 4

SeriesValues == {Milli(1520), Milli(-250), Milli(4)}

SeriesOfLength(n) ==
    { [i \in 1..n |-> Point(f[i], "q")] : f \in [1..n -> SeriesValues] }

InitSeries ==
    \E n \in 0..MaxLen, name \in {"eps", "netMargin"}, periods \in 1..DefaultPeriods :
        \E points \in SeriesOfLength(n), held \in {"eps", "roeTTM"} :
            /\ data = ("series" :> ("quarterly" :> (IF n = 0 /\ held = "roeTTM" THEN EmptyDict
                                                      ELSE (held :> points))))
            /\ args = ("series_name" :> name) @@ ("periods" :> periods)
            /\ pc = "start"
            /\ result = None

TrendSequence ==
    /\ pc = "start"
    /\ result' = Return(comprehensive_get_trend(data["series"]["quarterly"],
                                                args["series_name"], args["periods"]))
    /\ pc' = "done"
    /\ UNCHANGED <<data, args>>

NextSeries == TrendSequence

SpecSeries == InitSeries /\ [][NextSeries]_vars

\* s.split(sep)
RECURSIVE Split(_, _)
Split(s, sep) ==
    LET i == FirstIndex(s, sep)
    IN  IF i = 0 THEN <<s>>
        ELSE <<SubSeq(s, 1, i - 1)>> \o Split(SubSeq(s, i + Len(sep), Len(s)), sep)

\* C10: get_trend(series_name, periods) returns null when the series is
\* absent or has fewer than `periods` points; otherwise exactly `periods`
\* rendered values, the first `periods` entries in reversed order (the
\* first entry last), whatever follows them.
C10_TrendSequence ==
    pc = "done" =>
        LET q == data["series"]["quarterly"]
            name == args["series_name"]
            periods == args["periods"]
        IN  /\ result.exc = "none"
            /\ (result.value = None) <=> (~HasKey(q, name) \/ Len(q[name]) < periods)
            /\ result.value # None =>
                  LET parts == Split(result.value.s, " → ")
                  IN  /\ Len(parts) = periods
                      /\ \A i \in 1..periods :
                            parts[i] = FormatFixed(q[name][periods + 1 - i]["v"].v, 2)

C10_Witness ==
    /\ pc = "done"
    /\ args["periods"] = 4
    /\ HasKey(data["series"]["quarterly"], "eps")
    /\ Len(data["series"]["quarterly"]["eps"]) = 5
    /\ result = Return(Str("0.00 → -0.25 → 1.52 → 1.52"))

C10_WitnessShort ==
    /\ pc = "done"
    /\ args["periods"] = 4
    /\ args["series_name"] = "eps"
    /\ HasKey(data["series"]["quarterly"], "eps")
    /\ Len(data["series"]["quarterly"]["eps"]) = 3
    /\ result = Return(None)

---------------------------------------------------------------------------
(* create_structured_compression called on a record: SpecStructured *)

\* the most keys a metric mapping holds
MaxKeys == 3

StructuredKeys ==
    {"peTTM", "peAnnual", "epsGrowthTTMYoy", "currentRatioQuarterly",
     "currentRatioAnnual", "payoutRatioTTM", "Beta", "xyzUnrelated"}

\* symbol and series around the metric mapping
StructuredEnvelopes ==
    { ("series" :> EmptyDict),
      ("symbol" :> "AAPL")
          @@ ("series" :> (("quarterly" :> ("eps" :> FourQuarters \o FourQuarters))
                           @@ ("annual" :> ("eps" :> ThreeYears \o ThreeYears)))) }

StructuredValues == {Num(Milli(14000)), Num(Milli(15500))}

\* the orders in which n distinct keys can be inserted
KeyOrders(n) ==
    {order \in [1..n -> StructuredKeys] : \A i, j \in 1..n : i # j => order[i] # order[j]}

InitStructured ==
    \E n \in 0..MaxKeys :
        \E order \in KeyOrders(n), values \in [1..n -> StructuredValues],
           env \in StructuredEnvelopes :
            /\ data = ("metric" :> [k \in {order[i] : i \in 1..n} |->
                                       values[CHOOSE i \in 1..n : order[i] = k]])
                      @@ env
            /\ args = ("key_order" :> order)
            /\ pc = "start"
            /\ result = None

Structured ==
    /\ pc = "start"
    /\ result' = create_structured_compression(data, args["key_order"])
    /\ pc' = "done"
    /\ UNCHANGED <<data, args>>

NextStructured == Structured

SpecStructured == InitStructured /\ [][NextStructured]_vars

\* C7: every metric key matching a bucket pattern is held, with its own
\* value, in every bucket whose pattern it matches, and every entry of a
\* bucket comes from a key matching that bucket's pattern, so a key
\* matching no pattern is in no bucket.
C7_StructuredIsProjection ==
    pc = "done" =>
        /\ result.exc = "none"
        /\ \A bucket \in Buckets :
              LET held == result.value[bucket]
              IN  /\ \A k \in DOMAIN Metric :
                        BucketMatches(bucket, k) =>
                            /\ HasKey(held, BucketKey(bucket, k))
                            /\ held[BucketKey(bucket, k)] = Metric[k]
                  /\ \A nk \in DOMAIN held :
                        \E k \in DOMAIN Metric :
                            /\ BucketMatches(bucket, k)
                            /\ BucketKey(bucket, k) = nk
                            /\ held[nk] = Metric[k]

---------------------------------------------------------------------------
(* The compression renderers called on a record with parts missing:      *)
(* SpecRenderers                                                          *)

\* data['series']: as SeriesChoices, and with `quarterly` absent
RendererSeries ==
    SeriesChoices \cup {("annual" :> ("eps" :> Take(ThreeYears, 2)))}

\* the keys of a metric mapping in one fixed insertion order
RendererKeyOrder(m) ==
    SelectSeq(<<"peTTM", "epsGrowthTTMYoy", "roeTTM", "currentDividendYieldTTM">>,
              LAMBDA k : HasKey(m, k))

InitRenderers ==
    \E pe \in {Absent, None, Num(Milli(15500))},
       eg \in {Absent, None, Num(Milli(120))},
       roe \in {Absent, None, Num(Milli(200))},
       dy \in {Absent, None, Num(0), Num(Milli(12))},
       series \in RendererSeries,
       symbol \in {EmptyDict, ("symbol" :> "AAPL")},
       withMetric \in BOOLEAN,
       level \in RecognizedLevels :
        LET metric == MakeDict(("peTTM" :> pe) @@ ("epsGrowthTTMYoy" :> eg)
                               @@ ("roeTTM" :> roe) @@ ("currentDividendYieldTTM" :> dy))
        IN  /\ withMetric \/ metric = EmptyDict
            /\ data = (IF withMetric THEN ("metric" :> metric) ELSE EmptyDict)
                      @@ (IF series = Absent THEN EmptyDict ELSE ("series" :> series))
                      @@ symbol
            /\ args = ("detail_level" :> level) @@ ("key_order" :> RendererKeyOrder(metric))
            /\ pc = "start"
            /\ result = None

NextRenderers == Comprehensive \/ Structured

SpecRenderers == InitRenderers /\ [][NextRenderers]_vars

\* the value is a str, not a dict
IsText(v) == "tag" \in DOMAIN v

Quarterly == DictGet(DictGet(data, "series", EmptyDict), "quarterly", EmptyDict)
Annual == DictGet(DictGet(data, "series", EmptyDict), "annual", EmptyDict)

\* C11: on a record where metric, series, series.quarterly, series.annual,
\* a metric key or a series name is absent, or a metric value is null, each
\* of the four renderers returns normally; the text renders every missing
\* metric as N/A and leaves out the dividend block, each quarterly trend
\* line and the annual EPS line whose data is missing; the structured
\* result holds an empty mapping for each bucket no key matches.
C11_RenderersTotal ==
    pc = "done" =>
        /\ result.exc = "none"
        /\ IsText(result.value) =>
              LET s == result.value.s
                  detailed == args["detail_level"] = "detailed"
              IN  /\ ~Known(Metric, "peTTM") => In("PE N/A (", s)
                  /\ ~Known(Metric, "epsGrowthTTMYoy") => In("(N/A YoY)", s)
                  /\ ~Known(Metric, "roeTTM") => In("ROE N/A,", s)
                  /\ In("EPS $N/A (", s)
                  /\ ~Known(Metric, "currentDividendYieldTTM") => ~In("DIVIDEND", s)
                  /\ ~HasKey(Quarterly, "eps") => ~In("EPS (4Q)", s)
                  /\ ~HasKey(Quarterly, "netMargin") => ~In("Net Margin: ", s)
                  /\ ~HasKey(Quarterly, "roeTTM") => ~In("ROE: ", s)
                  /\ Quarterly = EmptyDict => ~In("QUARTERLY TRENDS", s)
                  /\ ~HasKey(Annual, "eps") => ~In("ANNUAL EPS", s)
                  /\ detailed => In("P/FCF N/A", s) /\ In("Low $N/A,", s)
        /\ ~IsText(result.value) =>
              /\ \A bucket \in Buckets :
                    (\A k \in DOMAIN Metric : ~BucketMatches(bucket, k)) =>
                        result.value[bucket] = EmptyDict
              /\ Quarterly = EmptyDict => result.value["trends_quarterly"] = EmptyDict
              /\ Annual = EmptyDict => result.value["trends_annual"] = EmptyDict
              /\ ~HasKey(data, "symbol") => result.value["symbol"] = None

\* the detailed text of a record without series whose metric mapping holds
\* a null and lacks the other keys
C11_Witness ==
    /\ pc = "done"
    /\ data = ("metric" :> ("roeTTM" :> None))
    /\ args["detail_level"] = "detailed"
    /\ IsText(result.value)
    /\ In("ROE N/A,", result.value.s)
    /\ In("PRICE RANGE: 52W High $N/A", result.value.s)

---------------------------------------------------------------------------
(* summarize_finnhub_financials called on a record with a quarterly EPS  *)
(* series: SpecQuarterly                                                  *)

QuarterlyEps == {Milli(-1200), 0, Milli(1500), Milli(2000)}

\* the series of 0..MaxLen points, latest first
QuarterlyEpsSeries ==
    UNION { { [i \in 1..n |-> Point(f[i], "q")] : f \in [1..n -> QuarterlyEps] }
            : n \in 0..MaxLen }

InitQuarterly ==
    \E metric \in {Absent, EmptyDict, ("currentRatioQuarterly" :> Num(Milli(1800)))},
       series \in {Absent, EmptyDict, ("annual" :> ("eps" :> ThreeYears)),
                   ("quarterly" :> ("netMargin" :> FourQuarters))}
                  \cup { ("quarterly" :> ("eps" :> points)) : points \in QuarterlyEpsSeries } :
        /\ data = (IF metric = Absent THEN EmptyDict ELSE ("metric" :> metric))
                  @@ (IF series = Absent THEN EmptyDict ELSE ("series" :> series))
        /\ args = EmptyDict
        /\ pc = "start"
        /\ result = None

NextQuarterly == Summarize

SpecQuarterly == InitQuarterly /\ [][NextQuarterly]_vars

DecimalDigits == "0123456789"

\* int(s) for a string of decimal digits
RECURSIVE ParseDigits(_)
ParseDigits(s) ==
    IF Len(s) = 0 THEN 0
    ELSE ParseDigits(SubSeq(s, 1, Len(s) - 1)) * 10
         + (FirstIndex(DecimalDigits, SubSeq(s, Len(s), Len(s))) - 1)

\* the text is [-]digits.dd%
IsPercentText(s) ==
    LET body == IF StartsWith(s, "-") THEN SubSeq(s, 2, Len(s)) ELSE s
    IN  /\ Len(body) >= 5
        /\ SubSeq(body, Len(body), Len(body)) = "%"
        /\ SubSeq(body, Len(body) - 3, Len(body) - 3) = "."
        /\ \A i \in (1..(Len(body) - 1)) \ {Len(body) - 3} :
              In(SubSeq(body, i, i), DecimalDigits)

\* the number written by a text [-]digits.dd%, in hundredths
ParsePercent(s) ==
    LET body == IF StartsWith(s, "-") THEN SubSeq(s, 2, Len(s)) ELSE s
        n == ParseDigits(Remove(SubSeq(body, 1, Len(body) - 1), "."))
    IN  IF StartsWith(s, "-") THEN -n ELSE n

\* C12: quarterly_trend is empty when the quarterly EPS series is absent or
\* has fewer than two points; otherwise it holds the first entry as
\* latest_quarter_eps, the second as prior_quarter_eps, and eps_qoq_change
\* is (latest - prior) / |prior| * 100 written with two decimals, and 0 when
\* prior is 0, whatever latest is.
C12_QuarterlyTrend ==
    pc = "done" =>
        /\ result.exc = "none"
        /\ LET qt == result.value["quarterly_trend"]
               eps == DictGet(DictGet(DictGet(data, "series", EmptyDict),
                                      "quarterly", EmptyDict), "eps", << >>)
           IN  IF Len(eps) < 2 THEN qt = EmptyDict
               ELSE LET latest == eps[1]["v"].v
                        prior == eps[2]["v"].v
                        change == qt["eps_qoq_change"].s
                    IN  /\ DOMAIN qt = {"latest_quarter_eps", "prior_quarter_eps",
                                        "eps_qoq_change"}
                        /\ qt["latest_quarter_eps"] = Num(latest)
                        /\ qt["prior_quarter_eps"] = Num(prior)
                        /\ IsPercentText(change)
                        /\ IF prior = 0 THEN ParsePercent(change) = 0
                           ELSE 2 * Abs(ParsePercent(change) * Abs(prior)
                                        - (latest - prior) * 100 * 100) <= Abs(prior)

\* five points, the second of them 0 and the first not
C12_Witness ==
    /\ pc = "done"
    /\ HasKey(data, "series")
    /\ HasKey(data["series"], "quarterly")
    /\ HasKey(data["series"]["quarterly"], "eps")
    /\ Len(data["series"]["quarterly"]["eps"]) = 5
    /\ data["series"]["quarterly"]["eps"][1]["v"] = Num(Milli(-1200))
    /\ data["series"]["quarterly"]["eps"][2]["v"] = Num(0)
    /\ result.exc = "none"
    /\ result.value["quarterly_trend"]["eps_qoq_change"] = Str("0.00%")

---------------------------------------------------------------------------
(* The unrecognized detail levels, checked under SpecComprehensive *)

Unrecognized == pc = "done" /\ args["detail_level"] \notin RecognizedLevels

\* C13 as stated: for a detail_level other than brief, standard and
\* detailed the output is the output for detail_level 'standard'.
C13_FallsBackToStandard ==
    Unrecognized => result = create_comprehensive_summary(data, "standard")

\* C13, amended: for a detail_level other than brief, standard and detailed
\* the output is the output for detail_level 'detailed', the comprehensive
\* text with the cash flow, margins, efficiency and price range sections,
\* and never the output for 'standard'.
C13_FallsThroughToDetailed ==
    Unrecognized =>
        /\ result = create_comprehensive_summary(data, "detailed")
        /\ result # create_comprehensive_summary(data, "standard")
        /\ result.exc = "none"
        /\ In(" Comprehensive Financial Analysis:", result.value.s)
        /\ \A section \in {"CASH FLOW: ", "MARGINS: ", "EFFICIENCY: ", "PRICE RANGE: "} :
              In(section, result.value.s)

\* the level 'full' on a record with four quarters of EPS and a dividend
C13_Witness ==
    /\ Unrecognized
    /\ args["detail_level"] = "full"
    /\ Known(Metric, "currentDividendYieldTTM")
    /\ result.exc = "none"
    /\ In("DIVIDEND: Yield 1.20%", result.value.s)
    /\ In("QUARTERLY TRENDS: EPS (4Q): 1.31 → -0.25 → 1.40 → 1.52", result.value.s)

---------------------------------------------------------------------------
(* Both derivation paths called on the same record: SpecPaths *)

\* a raw value for each metric the two paths both render as a percentage
SharedMetricValues ==
    ("epsGrowthTTMYoy" :> Num(Milli(12500)))
    @@ ("revenueGrowthTTMYoy" :> Num(Milli(8200)))
    @@ ("52WeekPriceReturnDaily" :> Num(Milli(-7300)))
    @@ ("yearToDatePriceReturnDaily" :> Num(Milli(4100)))
    @@ ("priceRelativeToS&P50052Week" :> Num(Milli(3300)))
    @@ ("netProfitMarginTTM" :> Num(Milli(250)))
    @@ ("operatingMarginTTM" :> Num(Milli(300)))
    @@ ("roeTTM" :> Num(Milli(200)))
    @@ ("roaTTM" :> Num(Milli(100)))

InitPaths ==
    \E held \in SUBSET DOMAIN SharedMetricValues, level \in RecognizedLevels :
        /\ data = ("symbol" :> "AAPL") @@ ("metric" :> [k \in held |-> SharedMetricValues[k]])
        /\ args = ("detail_level" :> level)
        /\ pc = "start"
        /\ result = None

NextPaths == Summarize \/ Comprehensive

SpecPaths == InitPaths /\ [][NextPaths]_vars

\* where each shared metric is rendered: the category and field of the
\* summary, and the texts that lead to it in the comprehensive summary
SharedPercentages ==
    { [key |-> "epsGrowthTTMYoy", category |-> "profitability",
       field |-> "eps_growth_ttm_yoy", markers |-> <<"EPS $", " (">>],
      [key |-> "roeTTM", category |-> "profitability",
       field |-> "roe_ttm", markers |-> <<"ROE ">>],
      [key |-> "roaTTM", category |-> "profitability",
       field |-> "roa_ttm", markers |-> <<"ROA ">>],
      [key |-> "netProfitMarginTTM", category |-> "profitability",
       field |-> "net_margin_ttm", markers |-> <<"Net Margin ">>],
      [key |-> "operatingMarginTTM", category |-> "profitability",
       field |-> "operating_margin_ttm", markers |-> <<"Op Margin ">>],
      [key |-> "revenueGrowthTTMYoy", category |-> "performance",
       field |-> "revenue_growth_ttm_yoy", markers |-> <<"GROWTH: Revenue ">>],
      [key |-> "yearToDatePriceReturnDaily", category |-> "stock_performance",
       field |-> "ytd_return", markers |-> <<"YTD ">>],
      [key |-> "52WeekPriceReturnDaily", category |-> "stock_performance",
       field |-> "52_week_return", markers |-> <<", 52W ">>],
      [key |-> "priceRelativeToS&P50052Week", category |-> "stock_performance",
       field |-> "vs_sp500_52week", markers |-> <<"vs S&P ">>] }

\* the text following the markers, each looked for after the one before;
\* "" when a marker is missing
RECURSIVE TextAfter(_, _)
TextAfter(s, markers) ==
    IF markers = << >> THEN s
    ELSE LET i == FirstIndex(s, markers[1])
         IN  IF i = 0 THEN ""
             ELSE TextAfter(SubSeq(s, i + Len(markers[1]), Len(s)), Tail(markers))

\* the percentage written after the markers, its % sign included
RenderedPercent(s, markers) ==
    LET rest == TextAfter(s, markers)
    IN  SubSeq(rest, 1, FirstIndex(rest, "%"))

\* C14: for every metric both paths render as a percentage, the summary
\* and the comprehensive text of the same record show the same percentage
\* (the text rounds to one decimal, the summary to two), so the two never
\* differ by a factor of 100.
C14_SameMultiplier ==
    pc = "done" =>
        LET summary == IF IsText(result.value) THEN summarize_finnhub_financials(data)
                       ELSE result
            text == IF IsText(result.value) THEN result
                    ELSE create_comprehensive_summary(data, args["detail_level"])
        IN  \A p \in SharedPercentages :
                (Known(Metric, p.key) /\ TextAfter(text.value.s, p.markers) # "") =>
                    LET hundredths == ParsePercent(summary.value[p.category][p.field].s)
                        tenths == ParsePercent(RenderedPercent(text.value.s, p.markers))
                    IN  Abs(hundredths - 10 * tenths) <= 5

---------------------------------------------------------------------------
(* Red flags and the health label, checked under Spec *)

\* what the messages of the four red flags with a ladder in the score
\* start with
ScoreFlags ==
    {"Liquidity concern", "High leverage", "Unprofitable", "Significant EPS decline"}

\* the score flags among the red flags of a summary
ScoreFlagsIn(summary) ==
    {flag \in ScoreFlags :
        \E i \in 1..Len(summary["red_flags"]) : StartsWith(summary["red_flags"][i].s, flag)}

\* C15: in a summary of a metric mapping with absent or numeric values,
\* k of the four score-related red flags being present, the health score
\* is at most 10 - 2k: overall_health is not Strong for k >= 2, is Fair or
\* Weak for k = 3 and is Weak for k = 4.
C15_FlagsBoundHealth ==
    (pc = "done" /\ ~HasNull(Metric)) =>
        /\ result.exc = "none"
        /\ LET k == Cardinality(ScoreFlagsIn(result.value))
               label == result.value["overall_health"].s
           IN  /\ health_score(Metric) <= 10 - 2 * k
               /\ ClaimedScore(Metric) <= 10 - 2 * k
               /\ k >= 2 => label # "Strong"
               /\ k = 3 => label \in {"Fair", "Weak"}
               /\ k = 4 => label = "Weak"

\* one score flag, the EPS decline, and a Strong health
C15_Witness ==
    /\ pc = "done"
    /\ ~HasNull(Metric)
    /\ result.exc = "none"
    /\ ScoreFlagsIn(result.value) = {"Significant EPS decline"}
    /\ result.value["overall_health"] = Str("Strong")

===========================================================================
